---- MODULE Spec2Model ----
(***************************************************************************)
(* A model of tscache (src/tscache/tscache.py): a disk-backed block cache  *)
(* for time series fetched page by page from a remote source.              *)
(*                                                                         *)
(* Time is counted in whole seconds relative to BASE_DATE (an integer,     *)
(* negative before the anchor).  A granularity string is a sequence of     *)
(* one-character strings.  A Python None is the empty tuple <<>> and an    *)
(* int n that may be None is <<n>>.  A raised exception is a value of the  *)
(* form [err |-> name].                                                    *)
(***************************************************************************)
EXTENDS Integers, Sequences, FiniteSets, TLC

VARIABLES
    block_size,  \* TimeSeriesCache.block_size
    limit,       \* TimeSeriesCache.limit
    remote,      \* the remote source behind the fetcher callback
    disk,        \* the files under basedir: path -> stored bytes
    pc,          \* per invocation: position in query / _fetch_block
    args,        \* per invocation: the arguments of query
    loc,         \* per invocation: the local variables of query and _fetch_block
    out,         \* per invocation: value returned or exception raised
    hist,        \* per invocation: fetcher calls, saves and loads it made (history)
    prev,        \* per invocation: outcome of the identical call made just before
    nqueries,    \* number of query calls started so far
    fn           \* input and result of a pure helper (pure-function specification)

vars == <<block_size, limit, remote, disk, pc, args, loc, out, hist, prev, nqueries, fn>>

(***************************************************************************)
(* Bounds of the model                                                     *)
(***************************************************************************)
MaxBlockSize == 3
MaxLimit == 2
MaxTime == 3
MaxQueries == 2
MaxGranLen == 3
MaxBlockNumber == 3
MaxEpoch == 12

None == <<>>
Some(n) == <<n>>

(***************************************************************************)
(* Granularity parsing                                                     *)
(***************************************************************************)
NL == "\n"
Digits == {"0", "1", "2"}
Units == {"s", "m", "h", "d"}
Alphabet == Digits \cup Units \cup {"x", "-", NL}

DigitValue(c) == CASE c = "0" -> 0 [] c = "1" -> 1 [] c = "2" -> 2

GranularitySecondsMap(u) ==
    CASE u = "s" -> 1
      [] u = "m" -> 60
      [] u = "h" -> 60 * 60
      [] u = "d" -> 24 * 60 * 60

\* int(r[1]): the decimal value of a string of digits
RECURSIVE PyInt(_)
PyInt(ds) ==
    IF ds = <<>> THEN 0
    ELSE 10 * PyInt(SubSeq(ds, 1, Len(ds) - 1)) + DigitValue(ds[Len(ds)])

\* re.match(r"^(\d+)([smhd])$", granularity): the groups <<digits, unit>>, or
\* None.  In Python "$" also matches just before a newline that ends the string.
ReMatch(granularity) ==
    LET n == Len(granularity)
        body == IF n >= 1 /\ granularity[n] = NL
                THEN SubSeq(granularity, 1, n - 1) ELSE granularity
        m == Len(body)
    IN IF /\ m >= 2
          /\ \A i \in 1..(m - 1) : body[i] \in Digits
          /\ body[m] \in Units
       THEN <<SubSeq(body, 1, m - 1), body[m]>>
       ELSE None

ConvertGranularityToSeconds(granularity) ==
    LET r == ReMatch(granularity)
    IN IF r # None /\ Len(r) = 2
       THEN [err |-> "none", val |-> PyInt(r[1]) * GranularitySecondsMap(r[2])]
       ELSE [err |-> "ValueError", val |-> 0]

(***************************************************************************)
(* Index arithmetic                                                        *)
(***************************************************************************)
\* int(a / b) for b > 0: true division, then truncation towards zero.  The
\* quotients of the model are far below 2^53, where the float is exact enough.
PyIntDiv(a, b) == IF a >= 0 THEN a \div b ELSE -((-a) \div b)

\* the subtraction with its operands exchanged: BASE_DATE - timestamp
CalculateIndex_Exchanged(timestamp, granularity) ==
    LET s == ConvertGranularityToSeconds(granularity)
        total_seconds == -timestamp
    IN IF s.err # "none" THEN s
       ELSE IF s.val = 0 THEN [err |-> "ZeroDivisionError", val |-> 0]
       ELSE [err |-> "none", val |-> PyIntDiv(total_seconds, s.val)]

CalculateIndex(timestamp, granularity) ==
    LET s == ConvertGranularityToSeconds(granularity)
        total_seconds == timestamp
    IN IF s.err # "none" THEN s
       ELSE IF s.val = 0 THEN [err |-> "ZeroDivisionError", val |-> 0]
       ELSE [err |-> "none", val |-> PyIntDiv(total_seconds, s.val)]

CalculateBlockIndex(index, bsize) == PyIntDiv(index, bsize)

(***************************************************************************)
(* Block store                                                             *)
(***************************************************************************)
Procs == {1, 2}

\* A record as the fetcher hands it over: a Python tuple or list (kind) of
\* fields; the fields say which candle it is.
Rec(kind, symbol, seconds, t) == <<kind, symbol, seconds, t>>

\* msgpack.packb(block): tuples and lists are both written as msgpack arrays
PackRecord(r) == <<"array", r[2], r[3], r[4]>>
Packb(block) == [ok |-> TRUE, data |-> [j \in DOMAIN block |-> PackRecord(block[j])]]

\* msgpack.unpackb(bytes): every msgpack array comes back as a Python list
UnpackRecord(r) == <<"list", r[2], r[3], r[4]>>
Unpackb(bytes) ==
    IF bytes.ok
    THEN [err |-> "none", val |-> [j \in DOMAIN bytes.data |-> UnpackRecord(bytes.data[j])]]
    ELSE [err |-> "CorruptBlock", val |-> <<>>]

\* bytes that msgpack cannot decode, such as the empty file that an
\* interrupted _save_block_to_path leaves behind
CorruptBytes == [ok |-> FALSE, data |-> <<>>]

\* a path that leaves the granularity out
GetBlockPath_NoGranularity(symbol, granularity, block_index) == <<symbol, <<>>, block_index>>

GetBlockPath(symbol, granularity, block_index) == <<symbol, granularity, block_index>>

GetStartTimeByBlock(block_index, seconds, bsize) == bsize * block_index * seconds

\* os.path.isdir in place of os.path.isfile: never true of a block file
BlockPathExists_IsDir(d, path) == FALSE

\* an existence test that also demands a decodable file
BlockPathExists_Decodable(d, path) == path \in DOMAIN d /\ d[path].ok

BlockPathExists(d, path) == path \in DOMAIN d

LoadBlockByPath(d, path) == Unpackb(d[path])

SaveBlockToPath(d, path, block) == (path :> Packb(block)) @@ d

(***************************************************************************)
(* The fetcher callback: the remote source has one candle per granularity  *)
(* step at every time t with remote.lo <= t < remote.hi, and answers a     *)
(* request for n candles from start with those of the n it has.            *)
(***************************************************************************)
Fetcher(symbol, granularity, start, n) ==
    LET seconds == ConvertGranularityToSeconds(granularity).val
        page == [j \in 1..n |-> Rec(remote.kind, symbol, seconds, start + (j - 1) * seconds)]
        Has(r) == remote.lo <= r[4] /\ r[4] < remote.hi
    IN SelectSeq(page, Has)

(***************************************************************************)
(* Slicing                                                                 *)
(***************************************************************************)
Min(a, b) == IF a <= b THEN a ELSE b
Max(a, b) == IF a >= b THEN a ELSE b

\* seq[a:b] of Python: a negative bound counts from the end, bounds are clamped
PySlice(seq, a, b) ==
    LET n == Len(seq)
        lo == IF a < 0 THEN Max(a + n, 0) ELSE Min(a, n)
        hi == IF b < 0 THEN Max(b + n, 0) ELSE Min(b, n)
    IN SubSeq(seq, lo + 1, hi)

\* _fetch_block from "offset = ..." to its return.  start_index is rebound
\* to an int before end_index tests it for None, so a None end_index reaches
\* the subtraction.
SliceBlock(block, bsize, start_index, end_index) ==
    LET offset == bsize - Len(block)
        start1 == IF start_index = None THEN Some(0) ELSE start_index
        end1 == IF start1 = None THEN Some(Len(block)) ELSE end_index
    IN IF end1 = None
       THEN [err |-> "TypeError", val |-> <<>>]
       ELSE [err |-> "none", val |-> PySlice(block, start1[1] - offset, end1[1] - offset)]

(***************************************************************************)
(* State                                                                   *)
(***************************************************************************)
NoArgs == [symbol |-> "", granularity |-> <<>>, start |-> 0, end |-> 0]
NoLoc == [start_index |-> 0, end_index |-> 0, start_block_index |-> 0,
          end_block_index |-> 0, results |-> <<>>, block_index |-> 0,
          path |-> <<>>, seconds |-> 0, start |-> 0, block |-> <<>>, i |-> 0]
NoOut == [err |-> "pending", val |-> <<>>]
NoPrev == [err |-> "absent", val |-> <<>>]
NoHist == [calls |-> <<>>, got |-> <<>>, saves |-> <<>>, loads |-> <<>>, disk0 |-> <<>>]
NoFn == [op |-> "none", x |-> <<>>, y |-> 0, r |-> <<>>]

\* The remote source and the cache directory when the cache object is made.
\* The source holds every candle, as lists or as tuples, or its history begins
\* or ends inside the queried times; the directory is empty or holds one
\* undecodable block file.
Horizon == 4 * MaxBlockSize * (MaxTime + 1)
FullRemote(k) == [lo |-> -Horizon, hi |-> Horizon, kind |-> k]
Worlds ==
    {<<FullRemote(k), <<>>>> : k \in {"list", "tuple"}}
    \cup {<<[lo |-> 1, hi |-> Horizon, kind |-> "list"], <<>>>>,
          <<[lo |-> -Horizon, hi |-> MaxTime - 1, kind |-> "list"], <<>>>>}
    \cup {<<FullRemote("list"), (GetBlockPath("A", <<"1", "s">>, b) :> CorruptBytes)>> :
            b \in 0..1}

\* what callers ask for: symbol "A" at several granularities, well formed or
\* not, and symbol "B"
QueryTargets ==
    {<<"A", g>> : g \in {<<"1", "s">>, <<"2", "s">>, <<"0", "s">>, <<"x">>, <<"1", "s", NL>>}}
    \cup {<<"B", <<"1", "s">>>>}
Times == (-1)..MaxTime

Init ==
    /\ block_size \in 2..MaxBlockSize
    /\ limit \in 1..MaxLimit
    /\ \E w \in Worlds : remote = w[1] /\ disk = w[2]
    /\ pc = [p \in Procs |-> "idle"]
    /\ args = [p \in Procs |-> NoArgs]
    /\ loc = [p \in Procs |-> NoLoc]
    /\ out = [p \in Procs |-> NoOut]
    /\ hist = [p \in Procs |-> NoHist]
    /\ prev = [p \in Procs |-> NoPrev]
    /\ nqueries = 0
    /\ fn = NoFn

Raise(p, e) ==
    /\ pc' = [pc EXCEPT ![p] = "raised"]
    /\ out' = [out EXCEPT ![p] = [err |-> e, val |-> <<>>]]

(***************************************************************************)
(* query: from its first line to the first test of the while loop          *)
(***************************************************************************)
\* the loop over the blocks begins at the end block
QueryEnter_FromEnd(p, a, pv) ==
    LET si == CalculateIndex(a.start, a.granularity)
        ei == CalculateIndex(a.end, a.granularity)
        sb == CalculateBlockIndex(si.val, block_size)
        eb == CalculateBlockIndex(ei.val, block_size)
    IN /\ nqueries < MaxQueries
       /\ nqueries' = nqueries + 1
       /\ args' = [args EXCEPT ![p] = a]
       /\ prev' = [prev EXCEPT ![p] = pv]
       /\ hist' = [hist EXCEPT ![p] = [NoHist EXCEPT !.disk0 = disk]]
       /\ IF si.err # "none"
          THEN Raise(p, si.err) /\ loc' = [loc EXCEPT ![p] = NoLoc]
          ELSE /\ pc' = [pc EXCEPT ![p] = "loop"]
               /\ out' = [out EXCEPT ![p] = NoOut]
               /\ loc' = [loc EXCEPT ![p] =
                            [NoLoc EXCEPT !.start_index = si.val,
                                          !.end_index = ei.val,
                                          !.start_block_index = sb,
                                          !.end_block_index = eb,
                                          !.block_index = eb]]
       /\ UNCHANGED <<block_size, limit, remote, disk, fn>>

QueryEnter(p, a, pv) ==
    LET si == CalculateIndex(a.start, a.granularity)
        ei == CalculateIndex(a.end, a.granularity)
        sb == CalculateBlockIndex(si.val, block_size)
        eb == CalculateBlockIndex(ei.val, block_size)
    IN /\ nqueries < MaxQueries
       /\ nqueries' = nqueries + 1
       /\ args' = [args EXCEPT ![p] = a]
       /\ prev' = [prev EXCEPT ![p] = pv]
       /\ hist' = [hist EXCEPT ![p] = [NoHist EXCEPT !.disk0 = disk]]
       /\ IF si.err # "none"
          THEN Raise(p, si.err) /\ loc' = [loc EXCEPT ![p] = NoLoc]
          ELSE /\ pc' = [pc EXCEPT ![p] = "loop"]
               /\ out' = [out EXCEPT ![p] = NoOut]
               /\ loc' = [loc EXCEPT ![p] =
                            [NoLoc EXCEPT !.start_index = si.val,
                                          !.end_index = ei.val,
                                          !.start_block_index = sb,
                                          !.end_block_index = eb,
                                          !.block_index = sb]]
       /\ UNCHANGED <<block_size, limit, remote, disk, fn>>

\* a caller calls query, for a range with start <= end
Query(p) ==
    /\ \A q \in Procs : pc[q] = "idle"
    /\ \E t \in QueryTargets, s \in Times, e \in Times :
         /\ s <= e
         /\ QueryEnter(p, [symbol |-> t[1], granularity |-> t[2], start |-> s, end |-> e], NoPrev)

\* the caller, having got the outcome of a call, makes the identical call again
Requery(p) ==
    /\ pc[p] \in {"returned", "raised"}
    /\ QueryEnter(p, args[p], out[p])

\* the caller takes the outcome and goes on
Finish(p) ==
    /\ pc[p] \in {"returned", "raised"}
    /\ pc' = [pc EXCEPT ![p] = "idle"]
    /\ args' = [args EXCEPT ![p] = NoArgs]
    /\ loc' = [loc EXCEPT ![p] = NoLoc]
    /\ out' = [out EXCEPT ![p] = NoOut]
    /\ hist' = [hist EXCEPT ![p] = NoHist]
    /\ prev' = [prev EXCEPT ![p] = NoPrev]
    /\ UNCHANGED <<block_size, limit, remote, disk, nqueries, fn>>

(***************************************************************************)
(* query's loop and _fetch_block                                           *)
(***************************************************************************)
\* the start_index and end_index arguments query passes to _fetch_block
StartArg(l) ==
    IF l.block_index = l.start_block_index THEN Some(l.start_index % block_size) ELSE None
EndArg(l) ==
    IF l.block_index = l.end_block_index THEN Some((l.end_index + 1) % block_size) ELSE None

\* the end of _fetch_block and of one round of query's loop: slice the block,
\* append the slice to results, go to the next block
SliceAndAdvance(p, l, block) ==
    LET s == SliceBlock(block, block_size, StartArg(l), EndArg(l))
    IN IF s.err # "none"
       THEN Raise(p, s.err) /\ loc' = [loc EXCEPT ![p] = l]
       ELSE /\ pc' = [pc EXCEPT ![p] = "loop"]
            /\ out' = out
            /\ loc' = [loc EXCEPT ![p] = [l EXCEPT !.results = l.results \o s.val,
                                                   !.block_index = l.block_index + 1,
                                                   !.block = <<>>, !.i = 0, !.start = 0,
                                                   !.path = <<>>, !.seconds = 0]]

\* one round of query's loop whose block file exists: load and slice
LoadBlock(p) ==
    LET l == loc[p]
        path == GetBlockPath(args[p].symbol, args[p].granularity, l.block_index)
        r == LoadBlockByPath(disk, path)
    IN /\ pc[p] = "loop"
       /\ l.block_index <= l.end_block_index
       /\ BlockPathExists(disk, path)
       /\ hist' = [hist EXCEPT ![p].loads = Append(@, path)]
       /\ IF r.err # "none"
          THEN Raise(p, r.err) /\ loc' = loc
          ELSE SliceAndAdvance(p, l, r.val)
       /\ UNCHANGED <<block_size, limit, remote, disk, args, prev, nqueries, fn>>

\* one round of query's loop whose block file is missing: up to the first
\* test of the pagination loop
BeginFetch(p) ==
    LET l == loc[p]
        path == GetBlockPath(args[p].symbol, args[p].granularity, l.block_index)
        seconds == ConvertGranularityToSeconds(args[p].granularity).val
    IN /\ pc[p] = "loop"
       /\ l.block_index <= l.end_block_index
       /\ ~BlockPathExists(disk, path)
       /\ pc' = [pc EXCEPT ![p] = "paginate"]
       /\ loc' = [loc EXCEPT ![p] =
                    [l EXCEPT !.path = path, !.seconds = seconds,
                              !.start = GetStartTimeByBlock(l.block_index, seconds, block_size),
                              !.block = <<>>, !.i = 0]]
       /\ UNCHANGED <<block_size, limit, remote, disk, args, out, hist, prev, nqueries, fn>>

\* every page is asked for with the full limit
FetchPage_AsksLimit(p) ==
    LET l == loc[p]
        n == limit
        a == args[p]
        page == Fetcher(a.symbol, a.granularity, l.start, n)
    IN /\ pc[p] = "paginate"
       /\ l.i < block_size
       /\ hist' = [hist EXCEPT ![p].calls = Append(@, <<l.block_index, l.start, n>>),
                               ![p].got = Append(@, Len(page))]
       /\ loc' = [loc EXCEPT ![p] =
                    [l EXCEPT !.block = l.block \o page,
                              !.start = l.start + limit * l.seconds,
                              !.i = l.i + limit]]
       /\ UNCHANGED <<block_size, limit, remote, disk, pc, args, out, prev, nqueries, fn>>

\* one round of the pagination loop: the fetcher answers
FetchPage(p) ==
    LET l == loc[p]
        n == Min(block_size - l.i, limit)
        a == args[p]
        page == Fetcher(a.symbol, a.granularity, l.start, n)
    IN /\ pc[p] = "paginate"
       /\ l.i < block_size
       /\ hist' = [hist EXCEPT ![p].calls = Append(@, <<l.block_index, l.start, n>>),
                               ![p].got = Append(@, Len(page))]
       /\ loc' = [loc EXCEPT ![p] =
                    [l EXCEPT !.block = l.block \o page,
                              !.start = l.start + limit * l.seconds,
                              !.i = l.i + limit]]
       /\ UNCHANGED <<block_size, limit, remote, disk, pc, args, out, prev, nqueries, fn>>

\* the fetcher raises, and what was accumulated is saved on the way out
FetchFail_SavesPartial(p) ==
    LET l == loc[p]
        n == Min(block_size - l.i, limit)
    IN /\ pc[p] = "paginate"
       /\ l.i < block_size
       /\ hist' = [hist EXCEPT ![p].calls = Append(@, <<l.block_index, l.start, n>>)]
       /\ disk' = (l.path :> Packb(l.block)) @@ disk
       /\ Raise(p, "FetcherError")
       /\ UNCHANGED <<block_size, limit, remote, args, loc, prev, nqueries, fn>>

\* one round of the pagination loop: the fetcher raises
FetchFail(p) ==
    LET l == loc[p]
        n == Min(block_size - l.i, limit)
    IN /\ pc[p] = "paginate"
       /\ l.i < block_size
       /\ hist' = [hist EXCEPT ![p].calls = Append(@, <<l.block_index, l.start, n>>)]
       /\ Raise(p, "FetcherError")
       /\ UNCHANGED <<block_size, limit, remote, disk, args, loc, prev, nqueries, fn>>

\* the block is saved only when it is complete
SaveBlock_OnlyFull(p) ==
    LET l == loc[p]
    IN /\ pc[p] = "paginate"
       /\ l.i >= block_size
       /\ disk' = IF Len(l.block) = block_size
                  THEN SaveBlockToPath(disk, l.path, l.block) ELSE disk
       /\ hist' = [hist EXCEPT ![p].saves = Append(@, l.path)]
       /\ SliceAndAdvance(p, l, l.block)
       /\ UNCHANGED <<block_size, limit, remote, args, prev, nqueries, fn>>

\* the pagination loop is over: save the block, slice it
SaveBlock(p) ==
    LET l == loc[p]
    IN /\ pc[p] = "paginate"
       /\ l.i >= block_size
       /\ disk' = SaveBlockToPath(disk, l.path, l.block)
       /\ hist' = [hist EXCEPT ![p].saves = Append(@, l.path)]
       /\ SliceAndAdvance(p, l, l.block)
       /\ UNCHANGED <<block_size, limit, remote, args, prev, nqueries, fn>>

\* query's loop is over: return results
Return(p) ==
    /\ pc[p] = "loop"
    /\ loc[p].block_index > loc[p].end_block_index
    /\ pc' = [pc EXCEPT ![p] = "returned"]
    /\ out' = [out EXCEPT ![p] = [err |-> "none", val |-> loc[p].results]]
    /\ UNCHANGED <<block_size, limit, remote, disk, args, loc, hist, prev, nqueries, fn>>

Step(p) ==
    \/ Requery(p)
    \/ Finish(p)
    \/ LoadBlock(p)
    \/ BeginFetch(p)
    \/ FetchPage(p)
    \/ FetchFail(p)
    \/ SaveBlock(p)
    \/ Return(p)

\* single-threaded use: one caller, one query at a time
Next == Query(1) \/ Step(1)

Spec == Init /\ [][Next]_vars

(***************************************************************************)
(* The pure helpers, applied to inputs drawn from bounded sets             *)
(***************************************************************************)
GranularityInputs == UNION {[1..n -> Alphabet] : n \in 0..MaxGranLen}

IndexGranularities == {<<"1", "s">>, <<"2", "s">>, <<"1", "0", "s">>, <<"1", "m">>}

InitFn ==
    /\ block_size = 2
    /\ limit = 1
    /\ remote = FullRemote("list")
    /\ disk = <<>>
    /\ pc = [p \in Procs |-> "idle"]
    /\ args = [p \in Procs |-> NoArgs]
    /\ loc = [p \in Procs |-> NoLoc]
    /\ out = [p \in Procs |-> NoOut]
    /\ hist = [p \in Procs |-> NoHist]
    /\ prev = [p \in Procs |-> NoPrev]
    /\ nqueries = 0
    /\ \/ \E g \in GranularityInputs : fn = [op |-> "granularity", x |-> g, y |-> 0, r |-> <<>>]
       \/ \E k \in (-MaxBlockNumber)..MaxBlockNumber, bs \in 1..MaxBlockSize, i \in 0..(MaxBlockSize - 1) :
            /\ i < bs
            /\ fn = [op |-> "block", x |-> <<k, i>>, y |-> bs, r |-> <<>>]
       \/ \E g \in IndexGranularities, t1 \in (-MaxEpoch)..MaxEpoch, t2 \in (-MaxEpoch)..MaxEpoch :
            /\ t1 < t2
            /\ fn = [op |-> "index", x |-> <<t1, t2>>, y |-> g, r |-> <<>>]

\* _convert_granularity_to_seconds(fn.x)
ApplyConvert ==
    /\ fn.op = "granularity"
    /\ fn' = [fn EXCEPT !.op = "granularity_done", !.r = ConvertGranularityToSeconds(fn.x)]
    /\ UNCHANGED <<block_size, limit, remote, disk, pc, args, loc, out, hist, prev, nqueries>>

\* _calculate_block_index(k * block_size + i, block_size)
ApplyBlockIndex ==
    /\ fn.op = "block"
    /\ fn' = [fn EXCEPT !.op = "block_done",
                        !.r = CalculateBlockIndex(fn.x[1] * fn.y + fn.x[2], fn.y)]
    /\ UNCHANGED <<block_size, limit, remote, disk, pc, args, loc, out, hist, prev, nqueries>>

\* _calculate_index(t1, g) and _calculate_index(t2, g)
ApplyIndex ==
    /\ fn.op = "index"
    /\ fn' = [fn EXCEPT !.op = "index_done",
                        !.r = <<CalculateIndex(fn.x[1], fn.y), CalculateIndex(fn.x[2], fn.y)>>]
    /\ UNCHANGED <<block_size, limit, remote, disk, pc, args, loc, out, hist, prev, nqueries>>

NextFn == ApplyConvert \/ ApplyBlockIndex \/ ApplyIndex

SpecFn == InitFn /\ [][NextFn]_vars

(***************************************************************************)
(* Properties                                                              *)
(***************************************************************************)
Done(p) == pc[p] \in {"returned", "raised"}

\* a positive integer followed by one unit letter
WellFormed(g) ==
    /\ Len(g) >= 2
    /\ \A j \in 1..(Len(g) - 1) : g[j] \in Digits
    /\ g[Len(g)] \in Units
    /\ PyInt(SubSeq(g, 1, Len(g) - 1)) > 0

SecondsOf(g) == PyInt(SubSeq(g, 1, Len(g) - 1)) * GranularitySecondsMap(g[Len(g)])

\* C7: the granularity parser returns integer x unit value exactly for the
\* strings made of a positive integer and one unit letter, and fails with
\* the invalid-granularity error for every other string.
C7_ParserExact ==
    fn.op = "granularity_done" =>
        IF WellFormed(fn.x)
        THEN fn.r = [err |-> "none", val |-> SecondsOf(fn.x)]
        ELSE fn.r.err = "ValueError"

\* C10: for every block number k and every i with 0 <= i < block_size,
\* to_block_index(k * block_size + i, block_size) equals k.
C10_BlockBoundary ==
    fn.op = "block_done" => fn.r = fn.x[1]

\* C8: a query called with a malformed granularity fails with the
\* invalid-granularity error, before any fetcher call and with the cache
\* directory unchanged.
C8_MalformedRejected ==
    \A p \in Procs :
        (pc[p] # "idle" /\ ~WellFormed(args[p].granularity)) =>
            /\ pc[p] = "raised"
            /\ out[p].err = "ValueError"
            /\ hist[p].calls = <<>>
            /\ disk = hist[p].disk0

\* to_index of the specification: floor((timestamp - BASE_DATE) / seconds)
ToIndex(t, g) == t \div SecondsOf(g)

\* the query of invocation p is one the contract covers: a well-formed
\* granularity and BASE_DATE <= start <= end
InContract(p) ==
    /\ WellFormed(args[p].granularity)
    /\ 0 <= args[p].start
    /\ args[p].start <= args[p].end

\* the remote source has a record for every index
FullHistory == remote.lo = -Horizon /\ remote.hi = Horizon

\* the block paths invocation p loaded or saved
Touched(p) ==
    {hist[p].loads[j] : j \in DOMAIN hist[p].loads}
    \cup {hist[p].saves[j] : j \in DOMAIN hist[p].saves}

\* C1: with a deterministic fetcher, a query made twice in a row with the
\* same arguments has the same result both times, and the second call makes
\* no fetcher call.
C1_Idempotent ==
    \A p \in Procs :
        (Done(p) /\ prev[p].err \notin {"absent", "FetcherError"}) =>
            /\ out[p] = prev[p]
            /\ hist[p].calls = <<>>

\* C2: for BASE_DATE <= start <= end and a remote source with a record for
\* every index, query returns exactly the records of the global indices
\* to_index(start) .. to_index(end), ascending, each once, also when the
\* range spans two or more blocks.
C2_ExactRange ==
    \A p \in Procs :
        (/\ Done(p)
         /\ InContract(p)
         /\ FullHistory
         /\ out[p].err \notin {"FetcherError", "CorruptBlock"}) =>
            LET g == args[p].granularity
                si == ToIndex(args[p].start, g)
                ei == ToIndex(args[p].end, g)
                v == out[p].val
            IN /\ out[p].err = "none"
               /\ Len(v) = ei - si + 1
               /\ \A j \in DOMAIN v :
                    /\ v[j][2] = args[p].symbol
                    /\ v[j][3] = SecondsOf(g)
                    /\ v[j][4] = (si + j - 1) * SecondsOf(g)

\* C3: when every block a query touches holds block_size records, the query
\* returns to_index(end) - to_index(start) + 1 records, for every
\* BASE_DATE <= start <= end.
C3_FullCoverage ==
    \A p \in Procs :
        (/\ Done(p)
         /\ InContract(p)
         /\ out[p].err \notin {"FetcherError", "CorruptBlock"}
         /\ \A path \in Touched(p) : disk[path].ok /\ Len(disk[path].data) = block_size) =>
            /\ out[p].err = "none"
            /\ Len(out[p].val) = ToIndex(args[p].end, args[p].granularity)
                                 - ToIndex(args[p].start, args[p].granularity) + 1

\* C4: a query whose range spans the blocks b0..b1, none of them cached,
\* performs exactly b1 - b0 + 1 block-fetch sequences, each followed by a
\* save of that block, and a second identical query performs none.
C4_FetchCount ==
    \A p \in Procs :
        (/\ Done(p)
         /\ InContract(p)
         /\ out[p].err # "FetcherError") =>
            LET a == args[p]
                b0 == ToIndex(a.start, a.granularity) \div block_size
                b1 == ToIndex(a.end, a.granularity) \div block_size
                Path(b) == GetBlockPath(a.symbol, a.granularity, b)
            IN /\ (\A b \in b0..b1 : Path(b) \notin DOMAIN hist[p].disk0) =>
                    hist[p].saves = [j \in 1..(b1 - b0 + 1) |-> Path(b0 + j - 1)]
               /\ prev[p].err \notin {"absent", "FetcherError"} =>
                    hist[p].saves = <<>> /\ hist[p].calls = <<>>

\* the path of the block invocation p is at
CurrentPath(p) == GetBlockPath(args[p].symbol, args[p].granularity, loc[p].block_index)

\* invocation p is about to enter _fetch_block for a block whose file exists
AtExistingBlock(p) ==
    /\ pc[p] = "loop"
    /\ loc[p].block_index <= loc[p].end_block_index
    /\ CurrentPath(p) \in DOMAIN disk

\* C5: under single-threaded use, once a block file exists its content never
\* changes, the fetcher is never called for that block again, and every
\* later query that touches the block reads it from disk.
C5_BlockImmutable ==
    [][\A p \in Procs :
         /\ \A path \in DOMAIN disk : path \in DOMAIN disk' /\ disk'[path] = disk[path]
         /\ hist'[p].calls # hist[p].calls /\ pc[p] = "paginate" => loc[p].path \notin DOMAIN disk
         /\ AtExistingBlock(p) =>
              /\ hist'[p].loads = Append(hist[p].loads, CurrentPath(p))
              /\ hist'[p].calls = hist[p].calls
              /\ pc'[p] # "paginate"]_vars

\* a later query has read from disk a block that an earlier query saved
W_C5 ==
    \E p \in Procs :
        /\ nqueries = 2
        /\ hist[p].loads # <<>>
        /\ hist[p].loads[1] \notin DOMAIN hist[p].disk0 \/ hist[p].disk0[hist[p].loads[1]].ok
        /\ disk[hist[p].loads[1]].ok
        /\ pc[p] = "returned"

\* the fetcher calls invocation p made for the block it is at
CallsHere(p) ==
    LET Here(c) == c[1] = loc[p].block_index
    IN SelectSeq(hist[p].calls, Here)

\* C6: if the fetcher raises while a missing block is paginated, no file for
\* that block exists after the query aborts, and the next query that touches
\* the block starts its pagination again at the block's first page.
C6_NoPartialBlock ==
    \A p \in Procs :
        /\ (pc[p] = "raised" /\ out[p].err = "FetcherError") =>
              loc[p].path \notin DOMAIN disk
        /\ pc[p] = "paginate" =>
              /\ loc[p].path \notin DOMAIN disk
              /\ loc[p].i = limit * Len(CallsHere(p))
              /\ loc[p].start = (block_size * loc[p].block_index + loc[p].i) * loc[p].seconds
              /\ CallsHere(p) = <<>> => loc[p].block = <<>>
              /\ CallsHere(p) # <<>> =>
                    CallsHere(p)[1] = <<loc[p].block_index,
                                        block_size * loc[p].block_index * loc[p].seconds,
                                        Min(block_size, limit)>>

\* after a query aborted by the fetcher, the identical query is paginating
\* the same block again and has made its first call
W_C6 ==
    \E p \in Procs :
        /\ prev[p].err = "FetcherError"
        /\ pc[p] = "paginate"
        /\ Len(hist[p].calls) = 1
        /\ loc[p].path \notin DOMAIN disk

\* C9: a query that touches a block file whose bytes cannot be decoded fails
\* with the corrupt-block error, makes no fetcher call for that block and
\* leaves the file as it was, so that every later query touching the block
\* fails the same way.
C9_CorruptPropagates ==
    [][\A p \in Procs :
         /\ \A path \in DOMAIN disk :
              ~disk[path].ok => path \in DOMAIN disk' /\ disk'[path] = disk[path]
         /\ (AtExistingBlock(p) /\ ~disk[CurrentPath(p)].ok) =>
              /\ pc'[p] = "raised"
              /\ out'[p].err = "CorruptBlock"
              /\ hist'[p].calls = hist[p].calls
              /\ hist'[p].saves = hist[p].saves
              /\ disk' = disk
         /\ out'[p].err = "CorruptBlock" =>
              AtExistingBlock(p) /\ ~disk[CurrentPath(p)].ok]_vars

\* a query failed on the undecodable file, and the identical query made
\* after it failed in the same way with the file still in place
W_C9 ==
    \E p \in Procs :
        /\ prev[p].err = "CorruptBlock"
        /\ out[p].err = "CorruptBlock"
        /\ hist[p].loads # <<>>
        /\ ~disk[hist[p].loads[1]].ok

\* C11: for a fixed granularity to_index is non-decreasing in the timestamp:
\* t1 < t2, on either side of BASE_DATE, gives to_index(t1) <= to_index(t2).
C11_IndexMonotone ==
    fn.op = "index_done" =>
        /\ fn.r[1].err = "none"
        /\ fn.r[2].err = "none"
        /\ fn.r[1].val <= fn.r[2].val

\* a timestamp before BASE_DATE and one after it, with different indices
W_C11 ==
    /\ fn.op = "index_done"
    /\ fn.x[1] < 0
    /\ fn.x[2] > 0
    /\ fn.r[1].val < 0
    /\ fn.r[2].val > 0

\* the fetcher calls invocation p made for block b
CallsFor(p, b) ==
    LET Of(c) == c[1] = b
    IN SelectSeq(hist[p].calls, Of)

CeilDiv(a, b) == (a + b - 1) \div b

RECURSIVE SumRequested(_)
SumRequested(calls) ==
    IF calls = <<>> THEN 0 ELSE calls[1][3] + SumRequested(Tail(calls))

\* the pagination the contract describes for block b: ceil(block_size / limit)
\* calls, limit * seconds apart from the block's start, each for
\* min(remaining, limit) records
Pagination(b, seconds) ==
    [j \in 1..CeilDiv(block_size, limit) |->
        <<b, (block_size * b + (j - 1) * limit) * seconds,
          Min(block_size - (j - 1) * limit, limit)>>]

\* C12: on a miss for block b the fetcher is called exactly
\* ceil(block_size / limit) times, first at the block's start time and then
\* limit * granularity_seconds later each time, each call for
\* min(remaining, limit) records, block_size records in all, whatever the
\* calls returned.
C12_Pagination ==
    \A p \in Procs :
        LET seconds == ConvertGranularityToSeconds(args[p].granularity).val
        IN /\ pc[p] = "paginate" =>
                LET cs == CallsFor(p, loc[p].block_index)
                    want == Pagination(loc[p].block_index, seconds)
                IN /\ Len(cs) <= Len(want)
                   /\ cs = SubSeq(want, 1, Len(cs))
                   /\ loc[p].i >= block_size => cs = want
           /\ \A j \in DOMAIN hist[p].saves :
                LET cs == CallsFor(p, hist[p].saves[j][3])
                IN /\ cs = Pagination(hist[p].saves[j][3], seconds)
                   /\ Len(cs) = CeilDiv(block_size, limit)
                   /\ SumRequested(cs) = block_size

\* a block was paginated and saved with a limit that does not divide
\* block_size, by calls that returned fewer records than they asked for
W_C12 ==
    \E p \in Procs :
        /\ hist[p].saves # <<>>
        /\ block_size % limit # 0
        /\ limit < block_size
        /\ Len(disk[hist[p].saves[1]].data) < block_size

\* the fields of a record, whether it is a tuple, a list or a stored array
Fields(r) == <<r[2], r[3], r[4]>>
FieldsOf(seq) == [j \in DOMAIN seq |-> Fields(seq[j])]

\* the query of invocation p lies within one block, after BASE_DATE
SingleBlock(p) ==
    /\ InContract(p)
    /\ ToIndex(args[p].start, args[p].granularity) \div block_size
         = ToIndex(args[p].end, args[p].granularity) \div block_size

\* the path of the block a single-block query is about
BlockOf(p) ==
    GetBlockPath(args[p].symbol, args[p].granularity,
                 ToIndex(args[p].start, args[p].granularity) \div block_size)

\* C13: a query whose start and end indices lie in the same fully populated
\* block returns that block's records at the local positions
\* start_index mod block_size .. end_index mod block_size, also when the end
\* is the block's last index.
C13_SingleBlockSlice ==
    \A p \in Procs :
        (/\ Done(p)
         /\ SingleBlock(p)
         /\ out[p].err \notin {"FetcherError", "CorruptBlock"}
         /\ BlockOf(p) \in DOMAIN disk
         /\ disk[BlockOf(p)].ok
         /\ Len(disk[BlockOf(p)].data) = block_size) =>
            LET g == args[p].granularity
                ls == ToIndex(args[p].start, g) % block_size
                le == ToIndex(args[p].end, g) % block_size
            IN /\ out[p].err = "none"
               /\ FieldsOf(out[p].val) = FieldsOf(SubSeq(disk[BlockOf(p)].data, ls + 1, le + 1))

\* the global index of a stored record
IndexOf(r) == r[4] \div r[3]

\* the block file at path holds fewer than block_size records, and they are
\* the last ones of the block's index span: those at its start are lacking
ShortAtStart(path) ==
    /\ path \in DOMAIN disk
    /\ disk[path].ok
    /\ Len(disk[path].data) < block_size
    /\ \A j \in DOMAIN disk[path].data :
         IndexOf(disk[path].data[j])
           = path[3] * block_size + (block_size - Len(disk[path].data)) + j - 1

\* C14: when a persisted block is shorter than block_size and lacks the
\* records at the start of its index span, a query returns exactly the
\* stored records whose global indices lie in the requested range, in
\* order, for every block length and every requested sub-range of the block.
C14_ShortBlockSlice ==
    \A p \in Procs :
        (/\ Done(p)
         /\ SingleBlock(p)
         /\ out[p].err \notin {"FetcherError", "CorruptBlock"}
         /\ ShortAtStart(BlockOf(p))) =>
            LET g == args[p].granularity
                InRange(r) == /\ ToIndex(args[p].start, g) <= IndexOf(r)
                              /\ IndexOf(r) <= ToIndex(args[p].end, g)
            IN /\ out[p].err = "none"
               /\ FieldsOf(out[p].val) = FieldsOf(SelectSeq(disk[BlockOf(p)].data, InRange))

\* invocation p has finished the pagination of a block: every page asked for
PaginationOver(p) == pc[p] = "paginate" /\ loc[p].i >= block_size

\* C15: with a fetcher that never returns more records than it is asked
\* for, every persisted block holds at most block_size records; a completed
\* pagination always persists its block, also with fewer than block_size
\* records; and a persisted block holds fewer than block_size records only
\* if some fetcher call for it returned fewer records than requested.
C15_BlockLength ==
    [][\A p \in Procs :
         /\ \A path \in DOMAIN disk' :
              disk'[path].ok => Len(disk'[path].data) <= block_size
         /\ PaginationOver(p) =>
              /\ loc[p].path \in DOMAIN disk'
              /\ disk'[loc[p].path] = Packb(loc[p].block)
              /\ Len(disk'[loc[p].path].data) < block_size =>
                   \E k \in DOMAIN hist[p].calls :
                       /\ hist[p].calls[k][1] = loc[p].block_index
                       /\ hist[p].got[k] < hist[p].calls[k][3]]_vars

\* a completed pagination persisted a block with fewer than block_size records
W_C15 ==
    \E p \in Procs :
        /\ hist[p].saves # <<>>
        /\ hist[p].saves[1] \in DOMAIN disk
        /\ Len(disk[hist[p].saves[1]].data) < block_size
        /\ Len(disk[hist[p].saves[1]].data) > 0
        /\ \A k \in DOMAIN hist[p].calls : hist[p].got[k] <= hist[p].calls[k][3]

\* path is a block file of the symbol and granularity invocation p asked
\* for, with a block index in [start_block, end_block]
OwnBlock(p, path) ==
    /\ path[1] = args[p].symbol
    /\ path[2] = args[p].granularity
    /\ loc[p].start_block_index <= path[3]
    /\ path[3] <= loc[p].end_block_index

\* C16: a query creates or reads only block files of its symbol and
\* granularity with a block index in [start_block, end_block]; every other
\* block file is left unchanged and no fetcher call is made for such a block.
C16_Frame ==
    \A p \in Procs :
        pc[p] # "idle" =>
            /\ \A j \in DOMAIN hist[p].loads : OwnBlock(p, hist[p].loads[j])
            /\ \A j \in DOMAIN hist[p].saves : OwnBlock(p, hist[p].saves[j])
            /\ \A j \in DOMAIN hist[p].calls :
                 /\ loc[p].start_block_index <= hist[p].calls[j][1]
                 /\ hist[p].calls[j][1] <= loc[p].end_block_index
            /\ pc[p] = "paginate" => OwnBlock(p, loc[p].path)
            /\ \A path \in DOMAIN hist[p].disk0 : path \in DOMAIN disk
            /\ \A path \in DOMAIN disk :
                 ~OwnBlock(p, path) =>
                    path \in DOMAIN hist[p].disk0 /\ disk[path] = hist[p].disk0[path]

\* a query has saved a block while the directory holds a block file of
\* another symbol or granularity, which an earlier query put there
W_C16 ==
    \E p \in Procs :
        /\ Done(p)
        /\ hist[p].saves # <<>>
        /\ \E path \in DOMAIN disk :
             /\ disk[path].ok
             /\ path[1] # args[p].symbol \/ path[2] # args[p].granularity
             /\ path[3] = hist[p].saves[1][3]

\* the path of block b of the symbol and granularity invocation p asked for
PathOf(p, b) == GetBlockPath(args[p].symbol, args[p].granularity, b)

Ascending(paths) ==
    \A i \in DOMAIN paths : \A j \in DOMAIN paths : i < j => paths[i][3] < paths[j][3]

\* C17: a query handles its blocks in ascending order, one at a time, and
\* persists a missing block before it starts the next; so when it is at
\* block k, or has aborted there, every block of the range below k is on
\* disk, block k was put on disk only by a completed pagination, and no
\* block above k was fetched or written by this query.
C17_BlockOrder ==
    \A p \in Procs :
        pc[p] # "idle" =>
            LET k == loc[p].block_index
                seconds == ConvertGranularityToSeconds(args[p].granularity).val
            IN /\ Ascending(hist[p].saves)
               /\ Ascending(hist[p].loads)
               /\ \A b \in loc[p].start_block_index..(k - 1) : PathOf(p, b) \in DOMAIN disk
               /\ (PathOf(p, k) \in DOMAIN disk /\ PathOf(p, k) \notin DOMAIN hist[p].disk0) =>
                     /\ \E j \in DOMAIN hist[p].saves : hist[p].saves[j] = PathOf(p, k)
                     /\ CallsFor(p, k) = Pagination(k, seconds)
               /\ \A j \in DOMAIN hist[p].calls : hist[p].calls[j][1] <= k
               /\ \A j \in DOMAIN hist[p].saves : hist[p].saves[j][3] <= k
               /\ \A j \in DOMAIN hist[p].loads : hist[p].loads[j][3] <= k
               /\ \A path \in DOMAIN disk :
                     (path[1] = args[p].symbol /\ path[2] = args[p].granularity /\ path[3] > k) =>
                        path \in DOMAIN hist[p].disk0 /\ disk[path] = hist[p].disk0[path]

\* a query over several blocks has aborted at block k after paginating and
\* saving it, and the block above k is not on disk
W_C17 ==
    \E p \in Procs :
        /\ pc[p] = "raised"
        /\ loc[p].block_index < loc[p].end_block_index
        /\ hist[p].saves = <<PathOf(p, loc[p].block_index)>>
        /\ PathOf(p, loc[p].block_index) \in DOMAIN disk
        /\ PathOf(p, loc[p].block_index + 1) \notin DOMAIN disk

(***************************************************************************)
(* Concurrent use: the invocations of Procs run query with no              *)
(* serialization between them, interleaved at every fetcher call and at    *)
(* the existence test and the write of a block file, while the remote      *)
(* source goes on receiving candles.                                       *)
(***************************************************************************)
InitConc ==
    /\ block_size \in 2..MaxBlockSize
    /\ limit \in 1..MaxLimit
    /\ remote \in {FullRemote("list"), [lo |-> -Horizon, hi |-> 1, kind |-> "list"]}
    /\ disk = <<>>
    /\ pc = [p \in Procs |-> "idle"]
    /\ args = [p \in Procs |-> NoArgs]
    /\ loc = [p \in Procs |-> NoLoc]
    /\ out = [p \in Procs |-> NoOut]
    /\ hist = [p \in Procs |-> NoHist]
    /\ prev = [p \in Procs |-> NoPrev]
    /\ nqueries = 0
    /\ fn = NoFn

\* a caller calls query, for one candle or two, while other invocations may
\* be running
QueryConc(p) ==
    /\ pc[p] = "idle"
    /\ \E s \in 0..MaxTime, e \in 0..MaxTime :
         /\ s <= e
         /\ e <= s + 1
         /\ QueryEnter(p, [symbol |-> "A", granularity |-> <<"1", "s">>,
                           start |-> s, end |-> e], NoPrev)

\* os.path.isdir(dirname): nothing is ever deleted, so the directory of a
\* symbol and granularity is there once a block file is in it, or once an
\* invocation has got past the directory part of _save_block_to_path
IsDir(symbol, granularity) ==
    \/ \E path \in DOMAIN disk : path[1] = symbol /\ path[2] = granularity
    \/ \E q \in Procs : /\ pc[q] \in {"open", "write"}
                        /\ args[q].symbol = symbol
                        /\ args[q].granularity = granularity

\* the length of a file: nothing for the empty file, else the array header
\* and the records behind it, every record of a block taking the same room
RawLen(bytes) == IF bytes = CorruptBytes THEN 0 ELSE 1 + Len(bytes.data)

\* the write lands behind what the file already holds
WriteAt0_Append(old, new) ==
    IF RawLen(old) = 0 THEN new
    ELSE [ok |-> FALSE, data |-> old.data \o new.data]

\* f.write through a handle whose position is 0, on a file that another
\* handle may have written since this one truncated it: the new bytes
\* replace the first bytes of the file and what lies behind them stays; a
\* header followed by more records than it counts does not decode
WriteAt0(old, new) ==
    IF RawLen(new) >= RawLen(old) THEN new
    ELSE [ok |-> FALSE,
          data |-> new.data \o SubSeq(old.data, Len(new.data) + 1, Len(old.data))]

\* _save_block_to_path, the test of the directory
SaveCheckDir(p) ==
    /\ pc[p] = "paginate"
    /\ loc[p].i >= block_size
    /\ pc' = [pc EXCEPT ![p] = IF IsDir(args[p].symbol, args[p].granularity)
                               THEN "open" ELSE "makedirs"]
    /\ UNCHANGED <<block_size, limit, remote, disk, args, loc, out, hist, prev, nqueries, fn>>

\* _save_block_to_path, os.makedirs after the test found no directory
SaveMakeDirs(p) ==
    /\ pc[p] = "makedirs"
    /\ IF IsDir(args[p].symbol, args[p].granularity)
       THEN Raise(p, "FileExistsError")
       ELSE pc' = [pc EXCEPT ![p] = "open"] /\ out' = out
    /\ UNCHANGED <<block_size, limit, remote, disk, args, loc, hist, prev, nqueries, fn>>

\* _save_block_to_path, open(path, "wb"): the file is created or truncated
SaveOpen(p) ==
    /\ pc[p] = "open"
    /\ disk' = (loc[p].path :> CorruptBytes) @@ disk
    /\ pc' = [pc EXCEPT ![p] = "write"]
    /\ UNCHANGED <<block_size, limit, remote, args, loc, out, hist, prev, nqueries, fn>>

\* _save_block_to_path, the write and the close, then the rest of
\* _fetch_block and of the round of query's loop
SaveWrite(p) ==
    LET l == loc[p]
    IN /\ pc[p] = "write"
       /\ disk' = (l.path :> WriteAt0(disk[l.path], Packb(l.block))) @@ disk
       /\ hist' = [hist EXCEPT ![p].saves = Append(@, l.path)]
       /\ SliceAndAdvance(p, l, l.block)
       /\ UNCHANGED <<block_size, limit, remote, args, prev, nqueries, fn>>

\* the remote source receives its next candle
RemoteGrows ==
    /\ remote.hi < MaxTime
    /\ remote' = [remote EXCEPT !.hi = remote.hi + 1]
    /\ UNCHANGED <<block_size, limit, disk, pc, args, loc, out, hist, prev, nqueries, fn>>

\* one invocation runs query once, from its entry to its return or raise
StepConc(p) ==
    \/ LoadBlock(p)
    \/ BeginFetch(p)
    \/ FetchPage(p)
    \/ FetchFail(p)
    \/ SaveCheckDir(p)
    \/ SaveMakeDirs(p)
    \/ SaveOpen(p)
    \/ SaveWrite(p)
    \/ Return(p)

NextConc == RemoteGrows \/ \E p \in Procs : QueryConc(p) \/ StepConc(p)

SpecConc == InitConc /\ [][NextConc]_vars

\* the step in which invocation p writes its block file
Writes(p) == pc[p] = "write" /\ pc'[p] # "write"

\* invocation p found its block file absent, ran the whole pagination of
\* the block and wrote the file
FetchedAndWrote(p, path) ==
    /\ path \notin DOMAIN hist[p].disk0
    /\ hist[p].loads = <<>>
    /\ hist[p].saves = <<path>>
    /\ CallsFor(p, path[3]) = Pagination(path[3], 1)

\* C18 as the specification words it: after a write by one of the racing
\* invocations the block file holds the records of the invocation that
\* wrote last.
C18_LastWriterRecords ==
    [][\A p \in Procs :
          Writes(p) => disk'[loc[p].path] = Packb(loc[p].block)]_vars

\* C18: two invocations running without serialization can both find the
\* same block file absent, both run the whole pagination and both write the
\* file. After a write the file begins with the records of the invocation
\* that wrote last. It holds exactly those records when what the write
\* landed on was not longer; otherwise the other invocation wrote a longer
\* file between this invocation's open and its write, the end of that file
\* stays behind the new records, and the file does not decode.
C18_RacingWrites ==
    [][\A p \in Procs :
          Writes(p) =>
             LET path == loc[p].path
                 new == Packb(loc[p].block)
                 old == disk[path]
             IN /\ path \in DOMAIN disk'
                /\ Len(disk'[path].data) >= Len(new.data)
                /\ SubSeq(disk'[path].data, 1, Len(new.data)) = new.data
                /\ RawLen(old) <= RawLen(new) => disk'[path] = new
                /\ RawLen(old) > RawLen(new) =>
                      /\ Unpackb(disk'[path]).err # "none"
                      /\ \E q \in Procs \ {p} :
                            /\ hist[q].saves = <<path>>
                            /\ Len(loc[p].block) < Len(disk'[path].data)]_vars

W_C18 ==
    \E path \in DOMAIN disk :
        /\ \A p \in Procs : FetchedAndWrote(p, path) /\ pc[p] \in {"returned", "raised"}
        /\ \E p \in Procs, q \in Procs : hist[p].got # hist[q].got
        /\ Unpackb(disk[path]).err = "none"

====
